---- MODULE Spec2Model ----
(***************************************************************************)
(* The Vapi webhook: the POST handler of src/app/api/vapi/webhook/route.ts *)
(* and the three other route variants kept in the repository               *)
(* (src/unnamed/part_000).  Each behaviour runs one deployed variant       *)
(* against the three collections vapi_events, vapi_calls and candidates.   *)
(* A handler is interleaved with the other handlers at its awaits.         *)
(***************************************************************************)
EXTENDS Integers, Sequences, FiniteSets, TLC

(* ---------------------------------------------------------------------- *)
(* Bounds                                                                 *)
(* ---------------------------------------------------------------------- *)
\* Number of requests (handler invocations) of a behaviour.
MaxRequests == 2
\* Largest value of the wall clock.
MaxClock == 2

Handlers == 1..MaxRequests

(* ---------------------------------------------------------------------- *)
(* JavaScript values.  A text is a sequence of one-character strings, so  *)
(* that trim, toLowerCase, includes and join are computed, not assumed.   *)
(* ---------------------------------------------------------------------- *)
Undefined == [t |-> "undefined", v |-> <<>>]
Null == [t |-> "null", v |-> <<>>]
True == [t |-> "boolean", v |-> <<"true">>]
False == [t |-> "boolean", v |-> <<"false">>]
Obj == [t |-> "object", v |-> <<>>]
Str(s) == [t |-> "string", v |-> s]

IsString(x) == x.t = "string"
\* JS truthiness: undefined, null, false and "" are falsy.
Truthy(x) ==
    \/ x.t = "object"
    \/ x.t = "string" /\ x.v # <<>>
    \/ x = True
\* a ?? b tests for null/undefined only.
Nullish(x) == x.t \in {"undefined", "null"}

\* a || b
Or(a, b) == IF Truthy(a) THEN a ELSE b
\* a ?? b
Coalesce(a, b) == IF Nullish(a) THEN b ELSE a

(* ---------------------------------------------------------------------- *)
(* String.prototype operations on texts                                   *)
(* ---------------------------------------------------------------------- *)
WhiteSpace == {" ", "\n", "\t"}

RECURSIVE TrimStart(_)
TrimStart(s) ==
    IF s # <<>> /\ Head(s) \in WhiteSpace THEN TrimStart(Tail(s)) ELSE s

RECURSIVE TrimEnd(_)
TrimEnd(s) ==
    IF s # <<>> /\ s[Len(s)] \in WhiteSpace
    THEN TrimEnd(SubSeq(s, 1, Len(s) - 1))
    ELSE s

\* String.prototype.trim
Trim(s) == TrimEnd(TrimStart(s))

UpperOf ==
    [a |-> "A", c |-> "C", d |-> "D", e |-> "E", f |-> "F", g |-> "G",
     i |-> "I", k |-> "K", l |-> "L", m |-> "M", n |-> "N", o |-> "O",
     p |-> "P", r |-> "R", s |-> "S", t |-> "T", u |-> "U", w |-> "W"]

LowerChar(c) ==
    IF \E k \in DOMAIN UpperOf : UpperOf[k] = c
    THEN CHOOSE k \in DOMAIN UpperOf : UpperOf[k] = c
    ELSE c

UpperChar(c) == IF c \in DOMAIN UpperOf THEN UpperOf[c] ELSE c

\* String.prototype.toLowerCase
ToLowerCase(s) == [i \in 1..Len(s) |-> LowerChar(s[i])]
\* String.prototype.toUpperCase
ToUpperCase(s) == [i \in 1..Len(s) |-> UpperChar(s[i])]

\* String.prototype.includes
Includes(s, sub) ==
    \E i \in 0..(Len(s) - Len(sub)) : SubSeq(s, i + 1, i + Len(sub)) = sub

\* Date.prototype.toISOString of the clock value n, and its inverse.
DigitOf == <<"1", "2", "3", "4", "5", "6", "7", "8", "9">>
ToISOString(n) == Str(<<"T", DigitOf[n]>>)
TimeOf(x) == CHOOSE n \in 1..Len(DigitOf) : ToISOString(n) = x

(* ---------------------------------------------------------------------- *)
(* The request body.  A parsed payload is the JSON tree flattened to its  *)
(* paths: a function from the paths that are present to their values.     *)
(* Get(payload, p) is the value at path p, Undefined when the path (or an *)
(* object on the way to it) is missing, which is what the optional        *)
(* chaining payload?.a?.b yields.                                         *)
(* ---------------------------------------------------------------------- *)
\* The empty object {}: what req.json().catch(() => ({})) yields for a body
\* that is not JSON.
EmptyObject == [p \in {} |-> Undefined]

Get(payload, p) == IF p \in DOMAIN payload THEN payload[p] ELSE Undefined

\* pickCallId: the same function in all four variants.
pickCallId(payload) ==
    Or(Get(payload, "callId"),
    Or(Get(payload, "call.id"),
    Or(Get(payload, "id"),
    Or(Get(payload, "message.call.id"),
    Or(Get(payload, "message.callId"),
    Or(Get(payload, "message.id"), Null))))))

\* pickEventType of route.ts and of the first two variants of part_000.
pickEventType(payload) ==
    Or(Get(payload, "message.type"),
    Or(Get(payload, "type"),
    Or(Get(payload, "event"),
    Or(Get(payload, "name"),
    Or(Get(payload, "status"), Str(<<"u", "n", "k", "n", "o", "w", "n">>))))))

\* The event type of the audit-only variant, which does not read message.type.
audit_eventType(payload) ==
    Or(Get(payload, "type"),
    Or(Get(payload, "event"),
    Or(Get(payload, "name"),
    Or(Get(payload, "status"), Str(<<"u", "n", "k", "n", "o", "w", "n">>)))))

pickSummary(payload) ==
    Or(Get(payload, "message.summary"), Or(Get(payload, "message.analysis.summary"), Null))

gemini_pickSummary(payload) ==
    Coalesce(Get(payload, "message.analysis.summary"),
             Coalesce(Get(payload, "message.summary"), Null))

pickTranscript(payload) ==
    Or(Get(payload, "message.transcript"),
       Or(Get(payload, "message.artifact.transcript"), Null))

gemini_pickTranscript(payload) ==
    Coalesce(Get(payload, "message.artifact.transcript"),
             Coalesce(Get(payload, "message.transcript"), Null))

pickRecordingUrl(payload) ==
    Or(Get(payload, "message.recordingUrl"),
    Or(Get(payload, "message.artifact.recordingUrl"),
    Or(Get(payload, "message.artifact.recording.mono.combinedUrl"), Null)))

pickSuccessEvaluation(payload) ==
    Coalesce(Get(payload, "message.analysis.successEvaluation"),
    Coalesce(Get(payload, "analysis.successEvaluation"),
    Coalesce(Get(payload, "message.successEvaluation"),
    Coalesce(Get(payload, "successEvaluation"), Null))))

\* pickVars yields the first truthy variableValues object, named here by its
\* path; "{}" is the empty-object default.
pickVars(payload) ==
    IF Truthy(Get(payload, "message.artifact.variableValues"))
    THEN "message.artifact.variableValues"
    ELSE IF Truthy(Get(payload, "message.variableValues"))
    THEN "message.variableValues"
    ELSE IF Truthy(Get(payload, "message.call.assistantOverrides.variableValues"))
    THEN "message.call.assistantOverrides.variableValues"
    ELSE "{}"

\* vars?.field
VarsGet(payload, field) ==
    IF pickVars(payload) = "{}"
    THEN Undefined
    ELSE Get(payload, pickVars(payload) \o "." \o field)

\* payload?.message?.conversation ?? payload?.conversation ?? ... ?? null
pickConversation(payload) ==
    Coalesce(Get(payload, "message.conversation"),
    Coalesce(Get(payload, "conversation"),
    Coalesce(Get(payload, "message.messagesOpenAIFormatted"), Null)))

\* payload?.message?.messages ?? payload?.messages ?? null
pickMessages(payload) ==
    Coalesce(Get(payload, "message.messages"), Coalesce(Get(payload, "messages"), Null))

(* ---------------------------------------------------------------------- *)
(* Verdicts                                                               *)
(* ---------------------------------------------------------------------- *)
pass == <<"p", "a", "s", "s">>
fail == <<"f", "a", "i", "l">>
PASS == <<"P", "A", "S", "S">>
FAIL == <<"F", "A", "I", "L">>
UNKNOWN == <<"U", "N", "K", "N", "O", "W", "N">>
true == <<"t", "r", "u", "e">>
false == <<"f", "a", "l", "s", "e">>

\* What a verdict computation yields: the verdict, where it came from and the
\* classifier's raw text.  route.ts yields the bare verdict "pass" | "fail";
\* its source and raw are "".
VerdictResult(verdict, source, raw) ==
    [verdict |-> verdict, source |-> source, raw |-> raw]

NoVerdict == VerdictResult(<<>>, "", <<>>)

\* The rejection of an awaited collaborator call.
Thrown == [t |-> "throw", v |-> <<>>]

\* [summary, transcript].filter(Boolean).join("\n\n")
route_material(summary, transcript) ==
    IF Truthy(summary) /\ Truthy(transcript)
    THEN summary.v \o <<"\n", "\n">> \o transcript.v
    ELSE IF Truthy(summary) THEN summary.v
    ELSE IF Truthy(transcript) THEN transcript.v
    ELSE <<>>

\* route.ts: !process.env.GEMINI_API_KEY && !process.env.GOOGLE_API_KEY
route_missingKey(e) ==
    ~Truthy(e.GEMINI_API_KEY) /\ ~Truthy(e.GOOGLE_API_KEY)

\* route.ts geminiPassFail up to its await: TRUE when generateContent is
\* called, FALSE when the function has already returned "fail".
route_callsClassifier(e, summary, transcript) ==
    /\ ~route_missingKey(e)
    /\ Trim(route_material(summary, transcript)) # <<>>

\* route.ts geminiPassFail after its await: resp.text is the classifier's
\* text (Undefined when the response carries none).
route_parseVerdict(text) ==
    LET t == ToLowerCase(Trim(Or(text, Str(<<>>)).v))
    IN  IF Includes(t, fail) THEN fail
        ELSE IF Includes(t, pass) THEN pass
        ELSE fail

\* route.ts POST, lines 169-181: the try/catch around geminiPassFail.
route_verdictOf(outcome) ==
    IF outcome = Thrown
    THEN VerdictResult(fail, "", <<>>)
    ELSE VerdictResult(route_parseVerdict(outcome), "", <<>>)

\* The verdict of the first variant of part_000, from Vapi's successEvaluation.
eval_verdict(successEvaluation) ==
    IF IsString(successEvaluation)
    THEN IF ToLowerCase(successEvaluation.v) = true THEN PASS
         ELSE IF ToLowerCase(successEvaluation.v) = false THEN FAIL
         ELSE UNKNOWN
    ELSE IF successEvaluation = True THEN PASS
    ELSE IF successEvaluation = False THEN FAIL
    ELSE UNKNOWN

\* The keyword heuristic of the second variant's geminiPassFail.
gemini_positive(s) ==
    \/ Includes(s, <<"p", "o", "s", "i", "t", "i", "v", "e">>)
    \/ Includes(s, <<"g", "r", "e", "a", "t">>)
    \/ Includes(s, <<"s", "t", "r", "o", "n", "g">>)
    \/ Includes(s, <<"r", "e", "c", "o", "m", "m", "e", "n", "d">>)
    \/ Includes(s, <<"n", "o", " ", "c", "o", "n", "c", "e", "r", "n", "s">>)
    \/ Includes(s, <<"n", "o", " ", "a", "r", "e", "a", "s", " ", "f", "o", "r", " ",
                     "i", "m", "p", "r", "o", "v", "e", "m", "e", "n", "t">>)
    \/ Includes(s, <<"w", "o", "u", "l", "d", " ", "r", "e", "h", "i", "r", "e">>)

gemini_negative(s) ==
    \/ Includes(s, <<"c", "o", "n", "c", "e", "r", "n">>)
    \/ Includes(s, <<"w", "a", "r", "n", "i", "n", "g">>)
    \/ Includes(s, <<"r", "e", "d", " ", "f", "l", "a", "g">>)
    \/ Includes(s, <<"w", "o", "u", "l", "d", " ", "n", "o", "t">>)
    \/ Includes(s, <<"d", "o", " ", "n", "o", "t", " ", "r", "e", "c", "o", "m", "m",
                     "e", "n", "d">>)
    \/ Includes(s, <<"p", "o", "o", "r">>)
    \/ Includes(s, <<"u", "n", "r", "e", "l", "i", "a", "b", "l", "e">>)
    \/ Includes(s, <<"d", "i", "s", "h", "o", "n", "e", "s", "t">>)
    \/ Includes(s, <<"m", "i", "s", "c", "o", "n", "d", "u", "c", "t">>)

gemini_fallback(summary) ==
    LET s == ToLowerCase(summary.v)
    IN  IF gemini_negative(s) /\ ~gemini_positive(s) THEN FAIL ELSE PASS

\* The second variant's POST decides whether geminiPassFail is called
\* (summary ? ... : no_summary), and geminiPassFail whether fetch is.
gemini_callsClassifier(e, summary) ==
    Truthy(summary) /\ Truthy(e.GEMINI_API_KEY)

\* The verdict the second variant reaches without calling the classifier.
gemini_verdictWithoutCall(e, summary) ==
    IF ~Truthy(summary)
    THEN VerdictResult(FAIL, "no_summary", <<>>)
    ELSE VerdictResult(UNKNOWN, "missing_key", <<>>)

\* The second variant's geminiPassFail after fetch has resolved: text is the
\* text of the response's first candidate (Undefined when it has none).
gemini_parseVerdict(summary, text) ==
    LET raw == Coalesce(text, Str(<<>>)).v
        cleaned == ToLowerCase(Trim(raw))
    IN  IF cleaned = pass THEN VerdictResult(PASS, "gemini", raw)
        ELSE IF cleaned = fail THEN VerdictResult(FAIL, "gemini", raw)
        ELSE VerdictResult(gemini_fallback(summary), "fallback", raw)

(* ---------------------------------------------------------------------- *)
(* Documents.  A document is a function from its field names to values;   *)
(* a field that was never set holds Undefined.                            *)
(* ---------------------------------------------------------------------- *)
\* A string literal of the code that is only stored and compared.
Lit(s) == Str(<<s>>)
Num(n) == [t |-> "number", v |-> <<n>>]

EventFields ==
    {"callId", "eventType", "receivedAt", "conversation", "messages", "payload"}

CallFields ==
    {"callId", "createdAt", "updatedAt", "summary", "transcript", "recordingUrl",
     "endedReason", "startedAt", "endedAt", "durationSeconds",
     "candidate_name", "company_name",
     "geminiVerdict",
     "successEvaluation", "verdict",
     "verdictSource", "verdictRaw", "vapiSuccessEvaluation"}

RefFields ==
    {"callId", "summary", "transcript", "recordingUrl", "verdict", "endedAt",
     "successEvaluation", "endedReason", "startedAt", "durationSeconds",
     "verdictSource", "vapiSuccessEvaluation"}

\* The document with the fields of set and no others.
Doc(fields, set) ==
    [f \in fields |-> IF f \in DOMAIN set THEN set[f] ELSE Undefined]

\* $set: the named fields are overwritten, the others kept.
SetFields(doc, set) ==
    [f \in DOMAIN doc |-> IF f \in DOMAIN set THEN set[f] ELSE doc[f]]

\* $addToSet
AddToSet(arr, x) ==
    IF \E i \in 1..Len(arr) : arr[i] = x THEN arr ELSE Append(arr, x)

Min(S) == CHOOSE x \in S : \A y \in S : x <= y

\* The documents of a collection that a filter {field: value} matches.
Matching(coll, field, value) ==
    {i \in 1..Len(coll) : coll[i][field] = value}

\* A store that replaces the stored entry of the same call instead of adding one.
insertOne_replaceSameCall(coll, doc) ==
    IF Matching(coll, "callId", doc.callId) # {}
    THEN [coll EXCEPT ![Min(Matching(coll, "callId", doc.callId))] = doc]
    ELSE Append(coll, doc)

\* A store that acknowledges an insert without keeping the document.
insertOne_lost(coll, doc) == coll

\* collection.insertOne(doc)
insertOne(coll, doc) == Append(coll, doc)

\* A write that inserts without looking for the call's document.
updateOneUpsert_alwaysInsert(coll, callId, set, setOnInsert) ==
    Append(coll, SetFields(SetFields(Doc(CallFields, <<>>), setOnInsert), set))

\* A write that leaves the call's document alone when there is one.
updateOneUpsert_keepExisting(coll, callId, set, setOnInsert) ==
    IF Matching(coll, "callId", callId) # {}
    THEN coll
    ELSE Append(coll, SetFields(SetFields(Doc(CallFields, <<>>), setOnInsert), set))

\* collection.updateOne({callId}, {$set, $setOnInsert}, {upsert: true})
updateOneUpsert(coll, callId, set, setOnInsert) ==
    IF Matching(coll, "callId", callId) # {}
    THEN [coll EXCEPT ![Min(Matching(coll, "callId", callId))] = SetFields(@, set)]
    ELSE Append(coll, SetFields(SetFields(Doc(CallFields, <<>>), setOnInsert), set))

\* payload?.message?.<field> ?? null
MessageField(payload, field) == Coalesce(Get(payload, "message." \o field), Null)

\* vars?.<field> ?? null
VarsField(payload, field) == Coalesce(VarsGet(payload, field), Null)

\* The vapi_events document of route.ts and of the first variant of part_000.
route_eventDoc(payload, now) ==
    [callId |-> pickCallId(payload),
     eventType |-> pickEventType(payload),
     receivedAt |-> ToISOString(now),
     conversation |-> pickConversation(payload),
     messages |-> pickMessages(payload),
     payload |-> payload]

\* The vapi_events document of the second variant of part_000.
gemini_eventDoc(payload, now) ==
    [callId |-> pickCallId(payload),
     eventType |-> pickEventType(payload),
     receivedAt |-> ToISOString(now),
     conversation |-> Undefined,
     messages |-> Undefined,
     payload |-> payload]

\* The vapi_events document of the audit-only variant of part_000.
audit_eventDoc(payload, now) ==
    [callId |-> pickCallId(payload),
     eventType |-> audit_eventType(payload),
     receivedAt |-> ToISOString(now),
     conversation |-> Undefined,
     messages |-> Undefined,
     payload |-> payload]

\* The $set of the vapi_calls upsert of route.ts.
route_callSet(payload, now, result) ==
    [callId |-> pickCallId(payload),
     updatedAt |-> ToISOString(now),
     summary |-> pickSummary(payload),
     transcript |-> pickTranscript(payload),
     recordingUrl |-> pickRecordingUrl(payload),
     endedReason |-> MessageField(payload, "endedReason"),
     startedAt |-> MessageField(payload, "startedAt"),
     endedAt |-> MessageField(payload, "endedAt"),
     durationSeconds |-> MessageField(payload, "durationSeconds"),
     candidate_name |-> VarsField(payload, "candidate_name"),
     company_name |-> VarsField(payload, "company_name"),
     geminiVerdict |-> Str(result.verdict)]

\* The $set of the vapi_calls upsert of the first variant of part_000.
eval_callSet(payload, now, result) ==
    [callId |-> pickCallId(payload),
     updatedAt |-> ToISOString(now),
     summary |-> pickSummary(payload),
     transcript |-> pickTranscript(payload),
     recordingUrl |-> pickRecordingUrl(payload),
     successEvaluation |-> pickSuccessEvaluation(payload),
     verdict |-> Str(result.verdict),
     endedReason |-> MessageField(payload, "endedReason"),
     startedAt |-> MessageField(payload, "startedAt"),
     endedAt |-> MessageField(payload, "endedAt"),
     durationSeconds |-> MessageField(payload, "durationSeconds"),
     candidate_name |-> VarsField(payload, "candidate_name"),
     company_name |-> VarsField(payload, "company_name")]

\* The $set of the vapi_calls upsert of the second variant of part_000.
gemini_callSet(payload, now, result) ==
    [callId |-> pickCallId(payload),
     updatedAt |-> ToISOString(now),
     summary |-> gemini_pickSummary(payload),
     transcript |-> gemini_pickTranscript(payload),
     recordingUrl |-> pickRecordingUrl(payload),
     verdict |-> Str(result.verdict),
     verdictSource |-> Lit(result.source),
     verdictRaw |-> Str(result.raw),
     vapiSuccessEvaluation |-> pickSuccessEvaluation(payload),
     endedReason |-> MessageField(payload, "endedReason"),
     startedAt |-> MessageField(payload, "startedAt"),
     endedAt |-> MessageField(payload, "endedAt"),
     durationSeconds |-> MessageField(payload, "durationSeconds"),
     candidate_name |-> VarsField(payload, "candidate_name"),
     company_name |-> VarsField(payload, "company_name")]

(* ---------------------------------------------------------------------- *)
(* The candidates collection                                              *)
(* ---------------------------------------------------------------------- *)
CandidateFields ==
    {"_id", "vapi.callId", "status", "stage", "referenceCall",
     "tasks.referralContacted", "tasks.referralResponses", "lastActivityAt",
     "humanCheckNeeded", "humanCheckReasons", "risk.score", "risk.flags",
     "activity"}

HexDigits ==
    {"0", "1", "2", "3", "4", "5", "6", "7", "8", "9",
     "a", "b", "c", "d", "e", "f", "A", "B", "C", "D", "E", "F"}

\* The length of an ObjectId written as a hex string.
ObjectIdHexLen == 24

\* ObjectId.isValid of a string: 24 hex digits.
ObjectIdIsValid(s) ==
    Len(s) = ObjectIdHexLen /\ \A i \in 1..Len(s) : s[i] \in HexDigits

\* new ObjectId(s), written as the lowercase hex string MongoDB compares by.
ObjectId(s) == Str(ToLowerCase(s))

\* typeof vars?.candidate_id === "string" ? vars.candidate_id : null
candidateIdRaw(payload) ==
    IF IsString(VarsGet(payload, "candidate_id"))
    THEN VarsGet(payload, "candidate_id")
    ELSE Null

\* candidateIdRaw && ObjectId.isValid(candidateIdRaw)
hasCandidateId(payload) ==
    Truthy(candidateIdRaw(payload)) /\ ObjectIdIsValid(candidateIdRaw(payload).v)

BoolOf(b) == IF b THEN True ELSE False

\* The update document of route.ts applied to a matched candidate.
route_candidateUpdate(doc, payload, now, result) ==
    [SetFields(doc,
        ("lastActivityAt" :> ToISOString(now))
        @@ ("status" :> Lit("CALL_ENDED"))
        @@ ("referenceCall" :> Doc(RefFields,
                [callId |-> pickCallId(payload),
                 summary |-> pickSummary(payload),
                 transcript |-> pickTranscript(payload),
                 recordingUrl |-> pickRecordingUrl(payload),
                 verdict |-> Str(ToUpperCase(result.verdict)),
                 endedAt |-> Coalesce(Get(payload, "message.endedAt"), ToISOString(now))]))
        @@ ("humanCheckNeeded" :> BoolOf(result.verdict = fail))
        @@ ("humanCheckReasons" :>
                IF result.verdict = fail
                THEN <<Lit("Reference check flagged by Gemini")>>
                ELSE <<>>)
        @@ ("stage" :> Lit("DECISION"))
        @@ ("tasks.referralContacted" :> Lit("DONE"))
        @@ ("tasks.referralResponses" :> Lit("DONE")))
     EXCEPT !["activity"] =
        Append(@, [at |-> ToISOString(now),
                   \* the label's bullet character is written * here
                   label |-> Str(<<"Reference call ended * Gemini: ">>
                                 \o ToUpperCase(result.verdict))])]

RiskScoreFail == 85
RiskScorePass == 15

\* baseUpdate of the first variant of part_000 applied to a matched candidate.
eval_baseUpdate(doc, payload, now, result) ==
    LET v == result.verdict
        set ==
            ("referenceCall" :> Doc(RefFields,
                [callId |-> pickCallId(payload),
                 summary |-> pickSummary(payload),
                 transcript |-> pickTranscript(payload),
                 recordingUrl |-> pickRecordingUrl(payload),
                 successEvaluation |-> pickSuccessEvaluation(payload),
                 verdict |-> Str(v),
                 endedReason |-> MessageField(payload, "endedReason"),
                 startedAt |-> MessageField(payload, "startedAt"),
                 endedAt |-> MessageField(payload, "endedAt"),
                 durationSeconds |-> MessageField(payload, "durationSeconds")]))
            @@ ("status" :>
                    IF v = PASS THEN Lit("REF_CALL_PASSED")
                    ELSE IF v = FAIL THEN Lit("REF_CALL_FAILED")
                    ELSE Lit("REF_CALL_ENDED"))
            @@ ("stage" :> Lit("DECISION"))
            @@ ("tasks.referralContacted" :> Lit("DONE"))
            @@ ("tasks.referralResponses" :>
                    IF v = PASS THEN Lit("DONE")
                    ELSE IF v = FAIL THEN Lit("FAILED")
                    ELSE Lit("WAITING"))
            @@ ("lastActivityAt" :> ToISOString(now))
        risk ==
            IF v = FAIL THEN ("risk.score" :> Num(RiskScoreFail))
            ELSE IF v = PASS THEN ("risk.score" :> Num(RiskScorePass))
            ELSE <<>>
    IN  [SetFields(doc, risk @@ set)
         EXCEPT !["activity"] =
                    Append(@, [at |-> ToISOString(now),
                               label |->
                                   IF v = PASS THEN Lit("Reference call ended (PASS)")
                                   ELSE IF v = FAIL
                                   THEN Lit("Reference call ended (FAIL)")
                                   ELSE Lit("Reference call ended")]),
                !["risk.flags"] =
                    IF v = FAIL
                    THEN AddToSet(@, Lit("Reference flagged concerns"))
                    ELSE @]

\* baseUpdate of the second variant of part_000 applied to a matched candidate.
gemini_baseUpdate(doc, payload, now, result) ==
    LET v == result.verdict
        set ==
            ("referenceCall" :> Doc(RefFields,
                [callId |-> pickCallId(payload),
                 summary |-> gemini_pickSummary(payload),
                 transcript |-> gemini_pickTranscript(payload),
                 recordingUrl |-> pickRecordingUrl(payload),
                 verdict |-> Str(v),
                 verdictSource |-> Lit(result.source),
                 vapiSuccessEvaluation |-> pickSuccessEvaluation(payload),
                 endedReason |-> MessageField(payload, "endedReason"),
                 startedAt |-> MessageField(payload, "startedAt"),
                 endedAt |-> MessageField(payload, "endedAt"),
                 durationSeconds |-> MessageField(payload, "durationSeconds")]))
            @@ ("status" :>
                    IF v = PASS THEN Lit("REF_CALL_PASSED") ELSE Lit("REF_CALL_FAILED"))
            @@ ("stage" :> Lit("DECISION"))
            @@ ("tasks.referralContacted" :> Lit("DONE"))
            @@ ("tasks.referralResponses" :> Lit("DONE"))
            @@ ("lastActivityAt" :> ToISOString(now))
            @@ ("risk.score" :>
                    IF v = FAIL THEN Num(RiskScoreFail) ELSE Num(RiskScorePass))
    IN  [SetFields(doc, set)
         EXCEPT !["activity"] =
                    Append(@, [at |-> ToISOString(now),
                               label |->
                                   IF v = PASS THEN Lit("Reference call ended (PASS)")
                                   ELSE Lit("Reference call ended (FAIL)")]),
                !["risk.flags"] =
                    IF v = FAIL
                    THEN AddToSet(@, Lit("Reference flagged concerns"))
                    ELSE @]

(* ---------------------------------------------------------------------- *)
(* Inputs: the deployed variant, the environment, the requests and the    *)
(* classifier's answers                                                   *)
(* ---------------------------------------------------------------------- *)
\* "route" is src/app/api/vapi/webhook/route.ts; "eval", "gemini" and "audit"
\* are the first, second and third route file of src/unnamed/part_000.
Variants == {"route", "eval", "gemini", "audit"}

Secret == Str(<<"s", "3">>)
ApiKey == Str(<<"k">>)

\* process.env
Envs ==
    {[WEBHOOK_TOKEN |-> tok, GEMINI_API_KEY |-> k[1], GOOGLE_API_KEY |-> k[2]] :
        tok \in {Undefined, Secret},
        k \in {<<Undefined, Undefined>>, <<ApiKey, Undefined>>, <<Undefined, ApiKey>>}}

\* req.headers.get("x-webhook-token")
Headers == {Null, Secret, Str(<<"x">>)}

EndOfCallReport ==
    Str(<<"e", "n", "d", "-", "o", "f", "-", "c", "a", "l", "l", "-",
          "r", "e", "p", "o", "r", "t">>)

c1 == Str(<<"c", "1">>)
c2 == Str(<<"c", "2">>)

Hex24(c) == [i \in 1..ObjectIdHexLen |-> c]

Terminal(callId) ==
    ("message.type" :> EndOfCallReport) @@ ("message.call.id" :> callId)

\* {message: {type: "hang", call: {id: "c1"}}}
Body_hang ==
    ("message.type" :> Str(<<"h", "a", "n", "g">>)) @@ ("message.call.id" :> c1)

\* A terminal event that carries no call id.
Body_noCallId ==
    ("message.type" :> EndOfCallReport)
    @@ ("message.summary" :> Str(<<"s", "t", "r", "o", "n", "g">>))

\* A positive report for c1 that names candidate aaaa... in its variables.
Body_positive ==
    Terminal(c1)
    @@ ("message.summary" :> Str(<<"s", "t", "r", "o", "n", "g">>))
    @@ ("message.analysis.successEvaluation" :> Str(true))
    @@ ("message.endedAt" :> Str(<<"T", "0">>))
    @@ ("message.artifact.variableValues" :> Obj)
    @@ ("message.artifact.variableValues.candidate_id" :> Str(Hex24("a")))
    @@ ("message.artifact.variableValues.candidate_name" :> Str(<<"A", "l">>))

\* A report for c1 whose summary is white space and that has no transcript.
Body_blank ==
    Terminal(c1)
    @@ ("message.summary" :> Str(<<" ">>))
    @@ ("message.analysis.successEvaluation" :> True)

\* A report for c1 with neither summary nor transcript.
Body_noText == Terminal(c1)

\* A report for c1 whose summary holds a positive and a negative marker, with
\* a malformed candidate id.
Body_tie ==
    Terminal(c1)
    @@ ("message.analysis.summary" :>
            Str(<<"N", "o", " ", "c", "o", "n", "c", "e", "r", "n", "s">>))
    @@ ("message.successEvaluation" :> False)
    @@ ("message.variableValues" :> Obj)
    @@ ("message.variableValues.candidate_id" :> Str(<<"b", "a", "d">>))

\* A negative report for c2 that names candidate bbbb... in its variables.
Body_negative ==
    Terminal(c2)
    @@ ("message.summary" :> Str(<<"p", "o", "o", "r">>))
    @@ ("message.artifact.transcript" :> Str(<<"h", "i">>))
    @@ ("successEvaluation" :> Str(false))
    @@ ("message.variableValues" :> Obj)
    @@ ("message.variableValues.candidate_id" :> Str(Hex24("b")))

\* A request body: json says whether the text parses as JSON, tree is the
\* object it parses to (for a text that does not parse, the object its
\* readable part spells).
Bodies ==
    {[json |-> TRUE, tree |-> b] :
        b \in {Body_hang, Body_noCallId, Body_positive, Body_blank, Body_noText,
               Body_tie, Body_negative}}
    \cup {[json |-> FALSE, tree |-> Body_positive]}

\* await req.json().catch(() => ({}))
ParseBody(body) == IF body.json THEN body.tree ELSE EmptyObject

\* What the awaited classifier call yields: a rejection, or the text of the
\* response (Undefined when the response carries no text).
ClassifierOutcomes ==
    {Thrown, Undefined, Str(pass), Str(fail), Str(<<"F", "a", "i", "l", ".">>)}

\* The candidates that the other routes of the application have stored.
Candidate(id, callId) ==
    [f \in CandidateFields |->
        CASE f = "_id" -> Str(id)
          [] f = "vapi.callId" -> callId
          [] f = "status" -> Lit("REF_CALL_STARTED")
          [] f = "stage" -> Lit("REFERENCES")
          [] f = "referenceCall" -> Doc(RefFields, <<>>)
          [] f = "tasks.referralContacted" -> Lit("WAITING")
          [] f = "tasks.referralResponses" -> Lit("WAITING")
          [] f = "lastActivityAt" -> Str(<<"T", "0">>)
          [] f = "humanCheckNeeded" -> False
          [] f = "humanCheckReasons" -> <<>>
          [] f = "risk.score" -> Num(0)
          [] f = "risk.flags" -> <<>>
          [] f = "activity" ->
                <<[at |-> Str(<<"T", "0">>), label |-> Lit("Reference call started")]>>]

(* ---------------------------------------------------------------------- *)
(* State                                                                  *)
(* ---------------------------------------------------------------------- *)
VARIABLES
    variant,        \* the route file that is deployed
    env,            \* process.env
    clock,          \* the time last read from the wall clock (0: none yet)
    vapi_events,    \* the vapi_events collection, in insertion order
    vapi_calls,     \* the vapi_calls collection, in insertion order
    candidates,     \* the candidates collection
    handlers,       \* the POST invocations: each one's locals and position
    callWriter,     \* history: the handler that last wrote vapi_calls[i]
    candWriter      \* history: the handler that last wrote candidates[i], or 0

vars ==
    <<variant, env, clock, vapi_events, vapi_calls, candidates, handlers,
      callWriter, candWriter>>

\* A POST invocation.  pc is the await it is suspended at:
\*   "idle"              not yet received
\*   "insert"            vapi_events.insertOne
\*   "classify"          the classifier call inside geminiPassFail
\*   "upsert"            vapi_calls.updateOne
\*   "candidateById"     candidates.updateOne({_id})
\*   "candidateByCallId" candidates.updateOne({"vapi.callId"})
\*   "done"              it has responded (response) or thrown ("error")
\* invoked, outcome and after are history: whether the classifier was called,
\* what the call yielded, and the handlers that were done when this one began.
IdleHandler ==
    [pc |-> "idle", header |-> Null, body |-> [json |-> FALSE, tree |-> EmptyObject],
     payload |-> EmptyObject, now |-> 0, result |-> NoVerdict, invoked |-> FALSE,
     outcome |-> Undefined, response |-> "none", after |-> {}]

Init ==
    /\ variant \in Variants
    /\ env \in Envs
    /\ clock = 0
    /\ vapi_events = <<>>
    /\ vapi_calls = <<>>
    /\ candidates = <<Candidate(Hex24("a"), c1), Candidate(Hex24("b"), c2)>>
    /\ handlers = [h \in Handlers |-> IdleHandler]
    /\ callWriter = <<>>
    /\ candWriter = <<0, 0>>

(* ---------------------------------------------------------------------- *)
(* The handler                                                            *)
(* ---------------------------------------------------------------------- *)
\* A token check that lets a request without the header through.
Unauthorized_absentPasses(e, header) ==
    Truthy(e.WEBHOOK_TOKEN) /\ header # Null /\ header # e.WEBHOOK_TOKEN

\* if (expected) { if (got !== expected) return 401 }
Unauthorized(e, header) ==
    Truthy(e.WEBHOOK_TOKEN) /\ header # e.WEBHOOK_TOKEN

eventTypeOf(v, payload) ==
    IF v = "audit" THEN audit_eventType(payload) ELSE pickEventType(payload)

summaryOf(v, payload) ==
    IF v = "gemini" THEN gemini_pickSummary(payload) ELSE pickSummary(payload)

transcriptOf(v, payload) ==
    IF v = "gemini" THEN gemini_pickTranscript(payload) ELSE pickTranscript(payload)

\* A terminal test that forgets the call id.
IsTerminal_anyCallId(v, payload) ==
    v # "audit" /\ pickEventType(payload) = EndOfCallReport

\* if (eventType === "end-of-call-report" && callId); the audit-only variant
\* has no such branch.
IsTerminal(v, payload) ==
    /\ v # "audit"
    /\ pickEventType(payload) = EndOfCallReport
    /\ Truthy(pickCallId(payload))

eventDoc(v, payload, now) ==
    CASE v \in {"route", "eval"} -> route_eventDoc(payload, now)
      [] v = "gemini" -> gemini_eventDoc(payload, now)
      [] v = "audit" -> audit_eventDoc(payload, now)

\* A $set that leaves out the fields whose new value is null.
callSet_onlyPresent(v, payload, now, result) ==
    LET full == CASE v = "route" -> route_callSet(payload, now, result)
                  [] v = "eval" -> eval_callSet(payload, now, result)
                  [] v = "gemini" -> gemini_callSet(payload, now, result)
    IN  [f \in {g \in DOMAIN full : full[g] # Null} |-> full[f]]

callSet(v, payload, now, result) ==
    CASE v = "route" -> route_callSet(payload, now, result)
      [] v = "eval" -> eval_callSet(payload, now, result)
      [] v = "gemini" -> gemini_callSet(payload, now, result)

\* An update that stores the activity log as the new entry alone.
candidateUpdate_resetActivity(v, doc, payload, now, result) ==
    LET full == CASE v = "route" -> route_candidateUpdate(doc, payload, now, result)
                  [] v = "eval" -> eval_baseUpdate(doc, payload, now, result)
                  [] v = "gemini" -> gemini_baseUpdate(doc, payload, now, result)
    IN  [full EXCEPT !["activity"] = <<@[Len(@)]>>]

candidateUpdate(v, doc, payload, now, result) ==
    CASE v = "route" -> route_candidateUpdate(doc, payload, now, result)
      [] v = "eval" -> eval_baseUpdate(doc, payload, now, result)
      [] v = "gemini" -> gemini_baseUpdate(doc, payload, now, result)

\* Whether the handler calls the classifier for this event.
callsClassifier(v, e, payload) ==
    CASE v = "route" ->
            route_callsClassifier(e, pickSummary(payload), pickTranscript(payload))
      [] v = "gemini" -> gemini_callsClassifier(e, gemini_pickSummary(payload))
      [] OTHER -> FALSE

\* The verdict the handler reaches when it does not call the classifier.
verdictWithoutCall(v, e, payload) ==
    CASE v = "route" -> VerdictResult(fail, "", <<>>)
      [] v = "eval" -> VerdictResult(eval_verdict(pickSuccessEvaluation(payload)), "", <<>>)
      [] v = "gemini" -> gemini_verdictWithoutCall(e, gemini_pickSummary(payload))

\* The first candidates filter the handler uses after the vapi_calls upsert.
firstCandidateStep(v, payload) ==
    IF v # "route" /\ hasCandidateId(payload)
    THEN "candidateById"
    ELSE "candidateByCallId"

\* The handlers that have responded or thrown.
Done == {g \in Handlers : handlers[g].pc = "done"}

Respond(h, r) ==
    handlers' = [handlers EXCEPT ![h].pc = "done", ![h].response = r]

\* POST up to vapi_events.insertOne: the token check, req.json(), the
\* normalizers (pure, evaluated where their values are used) and the timestamp
\* now = new Date(), which is the time last read or a later one.
POST(h, header, body) ==
    /\ handlers[h].pc = "idle"
    /\ IF h = 1 THEN TRUE ELSE handlers[h - 1].pc # "idle"
    /\ IF Truthy(env.WEBHOOK_TOKEN) THEN TRUE ELSE header = Null
    /\ IF Unauthorized(env, header)
       THEN /\ handlers' = [handlers EXCEPT ![h].pc = "done",
                                            ![h].header = header,
                                            ![h].body = body,
                                            ![h].response = "unauthorized"]
            /\ UNCHANGED clock
       ELSE \E now \in {clock, clock + 1} \cap 1..MaxClock :
                /\ clock' = now
                /\ handlers' = [handlers EXCEPT ![h].pc = "insert",
                                                ![h].header = header,
                                                ![h].body = body,
                                                ![h].payload = ParseBody(body),
                                                ![h].now = now,
                                                ![h].after = Done]
    /\ UNCHANGED <<variant, env, vapi_events, vapi_calls, candidates,
                   callWriter, candWriter>>

\* vapi_events.insertOne takes effect and the handler runs on to its next
\* await or to its response.
InsertEvent(h) ==
    LET me == handlers[h]
    IN  /\ me.pc = "insert"
        /\ vapi_events' = insertOne(vapi_events, eventDoc(variant, me.payload, me.now))
        /\ IF ~IsTerminal(variant, me.payload)
           THEN Respond(h, "ok")
           ELSE IF callsClassifier(variant, env, me.payload)
           THEN handlers' = [handlers EXCEPT ![h].pc = "classify",
                                             ![h].invoked = TRUE]
           ELSE handlers' = [handlers EXCEPT
                                ![h].pc = "upsert",
                                ![h].result =
                                    verdictWithoutCall(variant, env, me.payload)]
        /\ UNCHANGED <<variant, env, clock, vapi_calls, candidates,
                       callWriter, candWriter>>

\* The classifier call settles.  route.ts catches a rejection; the second
\* variant of part_000 lets it leave POST.
ClassifierReturns(h, outcome) ==
    LET me == handlers[h]
    IN  /\ me.pc = "classify"
        /\ IF variant = "route"
           THEN handlers' = [handlers EXCEPT ![h].pc = "upsert",
                                             ![h].outcome = outcome,
                                             ![h].result = route_verdictOf(outcome)]
           ELSE IF outcome = Thrown
           THEN handlers' = [handlers EXCEPT ![h].pc = "done",
                                             ![h].outcome = outcome,
                                             ![h].response = "error"]
           ELSE handlers' = [handlers EXCEPT
                                ![h].pc = "upsert",
                                ![h].outcome = outcome,
                                ![h].result =
                                    gemini_parseVerdict(
                                        gemini_pickSummary(me.payload), outcome)]
        /\ UNCHANGED <<variant, env, clock, vapi_events, vapi_calls, candidates,
                       callWriter, candWriter>>

\* vapi_calls.updateOne({callId}, ..., {upsert: true}) takes effect.
UpsertCall(h) ==
    LET me == handlers[h]
        callId == pickCallId(me.payload)
    IN  /\ me.pc = "upsert"
        /\ vapi_calls' =
               updateOneUpsert(vapi_calls, callId,
                               callSet(variant, me.payload, me.now, me.result),
                               [createdAt |-> ToISOString(me.now)])
        /\ callWriter' =
               IF Matching(vapi_calls, "callId", callId) # {}
               THEN [callWriter EXCEPT ![Min(Matching(vapi_calls, "callId", callId))] = h]
               ELSE Append(callWriter, h)
        /\ handlers' = [handlers EXCEPT
                            ![h].pc = firstCandidateStep(variant, me.payload)]
        /\ UNCHANGED <<variant, env, clock, vapi_events, candidates, candWriter>>

\* candidates.updateOne(filter, update) on the first document the filter
\* {field: value} matches, if any.
UpdateCandidate(h, field, value) ==
    LET me == handlers[h]
        m == Matching(candidates, field, value)
    IN  IF m = {}
        THEN UNCHANGED <<candidates, candWriter>>
        ELSE /\ candidates' =
                    [candidates EXCEPT ![Min(m)] =
                        candidateUpdate(variant, @, me.payload, me.now, me.result)]
             /\ candWriter' = [candWriter EXCEPT ![Min(m)] = h]

\* candidates.updateOne({_id: new ObjectId(candidateIdRaw)}, baseUpdate)
UpdateCandidateById(h) ==
    LET me == handlers[h]
        id == ObjectId(candidateIdRaw(me.payload).v)
    IN  /\ me.pc = "candidateById"
        /\ UpdateCandidate(h, "_id", id)
        /\ IF Matching(candidates, "_id", id) = {}
           THEN handlers' = [handlers EXCEPT ![h].pc = "candidateByCallId"]
           ELSE Respond(h, "ok")
        /\ UNCHANGED <<variant, env, clock, vapi_events, vapi_calls, callWriter>>

\* candidates.updateOne({"vapi.callId": callId}, update)
UpdateCandidateByCallId(h) ==
    LET me == handlers[h]
    IN  /\ me.pc = "candidateByCallId"
        /\ UpdateCandidate(h, "vapi.callId", pickCallId(me.payload))
        /\ Respond(h, "ok")
        /\ UNCHANGED <<variant, env, clock, vapi_events, vapi_calls, callWriter>>

Next ==
    \E h \in Handlers :
        \/ \E header \in Headers, body \in Bodies : POST(h, header, body)
        \/ InsertEvent(h)
        \/ \E outcome \in ClassifierOutcomes : ClassifierReturns(h, outcome)
        \/ UpsertCall(h)
        \/ UpdateCandidateById(h)
        \/ UpdateCandidateByCallId(h)

Spec == Init /\ [][Next]_vars

(* ---------------------------------------------------------------------- *)
(* The same handlers with a document store whose operations can reject.   *)
(* POST has no try/catch around its store calls: a rejection leaves the   *)
(* handler, and the framework answers with an error.                      *)
(* ---------------------------------------------------------------------- *)
\* await db.collection("vapi_events").insertOne(...) rejects.
InsertEventThrows(h) ==
    /\ handlers[h].pc = "insert"
    /\ Respond(h, "error")
    /\ UNCHANGED <<variant, env, clock, vapi_events, vapi_calls, candidates,
                   callWriter, candWriter>>

\* await vapi_calls.updateOne(...) rejects.
UpsertCallThrows(h) ==
    /\ handlers[h].pc = "upsert"
    /\ Respond(h, "error")
    /\ UNCHANGED <<variant, env, clock, vapi_events, vapi_calls, candidates,
                   callWriter, candWriter>>

\* await candidates.updateOne(...) rejects.
UpdateCandidateThrows(h) ==
    /\ handlers[h].pc \in {"candidateById", "candidateByCallId"}
    /\ Respond(h, "error")
    /\ UNCHANGED <<variant, env, clock, vapi_events, vapi_calls, candidates,
                   callWriter, candWriter>>

NextFault ==
    \/ Next
    \/ \E h \in Handlers :
        \/ InsertEventThrows(h)
        \/ UpsertCallThrows(h)
        \/ UpdateCandidateThrows(h)

SpecFault == Init /\ [][NextFault]_vars

(* ---------------------------------------------------------------------- *)
(* Properties                                                             *)
(* ---------------------------------------------------------------------- *)
\* The handlers that passed the token check and whose audit insert is done.
Audited ==
    {h \in Handlers :
        /\ handlers[h].pc \notin {"idle", "insert"}
        /\ handlers[h].response # "unauthorized"}

\* The handler takes a step.
Steps(h) == handlers'[h] # handlers[h]

unknown == <<"u", "n", "k", "n", "o", "w", "n">>

C1_OnePerRequest ==
    /\ Len(vapi_events) = Cardinality(Audited)
    /\ \A h \in Audited :
        \E i \in 1..Len(vapi_events) :
            /\ vapi_events[i].receivedAt = ToISOString(handlers[h].now)
            /\ IF handlers[h].body.json
               THEN vapi_events[i].payload = handlers[h].body.tree
               ELSE /\ vapi_events[i].payload = EmptyObject
                    /\ vapi_events[i].callId = Null
                    /\ vapi_events[i].eventType = Str(unknown)

C1_AppendOnly ==
    /\ Len(vapi_events') >= Len(vapi_events)
    /\ SubSeq(vapi_events', 1, Len(vapi_events)) = vapi_events
    /\ \A h \in Handlers :
        (handlers[h].pc = "insert" /\ Steps(h))
            => Len(vapi_events') = Len(vapi_events) + 1

\* C1: every request that passes the token check appends exactly one entry
\* to vapi_events, whatever its event type, call id or body (a body that is
\* not JSON is stored as the payload {} with callId null and eventType
\* "unknown"); the log holds one entry per such request, and no step
\* changes or removes an entry that is already there.
C1_AuditLog == [](C1_OnePerRequest) /\ [][C1_AppendOnly]_vars

\* Two requests are audited: one with a body that is not JSON, the other a
\* terminal event that went on to the later stages.
C1_Witness ==
    /\ Len(vapi_events) = 2
    /\ \E h \in Audited : ~handlers[h].body.json /\ handlers[h].response = "ok"
    /\ \E h \in Audited : IsTerminal(variant, handlers[h].payload)

C2_Rejected(h) ==
    /\ handlers[h].pc # "idle"
    /\ Truthy(env.WEBHOOK_TOKEN)
    /\ handlers[h].header # env.WEBHOOK_TOKEN

\* C2: with WEBHOOK_TOKEN configured, a request whose x-webhook-token header
\* is absent or differs is answered "unauthorized" at once, the step that
\* answers it changes none of vapi_events, vapi_calls and candidates, the
\* handler takes no later step, and the classifier is not called.
C2_UnauthorizedNoEffect ==
    /\ [](\A h \in Handlers :
            C2_Rejected(h) =>
                /\ handlers[h].pc = "done"
                /\ handlers[h].response = "unauthorized"
                /\ ~handlers[h].invoked)
    /\ [][\A h \in Handlers :
            (Steps(h) /\ C2_Rejected(h)')
                => /\ handlers[h].pc = "idle"
                   /\ UNCHANGED <<vapi_events, vapi_calls, candidates>>]_vars

\* One request was rejected for a missing header and one for a wrong one.
C2_Witness ==
    /\ \E h \in Handlers :
        handlers[h].response = "unauthorized" /\ handlers[h].header = Null
    /\ \E h \in Handlers :
        handlers[h].response = "unauthorized" /\ handlers[h].header = Str(<<"x">>)

C3_NotTerminal(h) ==
    /\ handlers[h].pc # "idle"
    /\ \/ eventTypeOf(variant, handlers[h].payload) # EndOfCallReport
       \/ pickCallId(handlers[h].payload) = Null

\* C3: a request whose normalized event type is not "end-of-call-report", or
\* whose normalized call id is null, never reaches the classifier, the
\* vapi_calls upsert or a candidates update: none of its steps changes
\* vapi_calls or candidates, and its only write is its audit entry.
C3_NonTerminalAuditOnly ==
    /\ [](\A h \in Handlers :
            C3_NotTerminal(h) =>
                /\ ~handlers[h].invoked
                /\ handlers[h].pc \in {"insert", "done"}
                /\ handlers[h].result = NoVerdict)
    /\ [][\A h \in Handlers :
            (Steps(h) /\ C3_NotTerminal(h)')
                => UNCHANGED <<vapi_calls, candidates>>]_vars

\* A terminal-type event without a call id and an event of another type have
\* both been answered, and only the audit log has grown.
C3_Witness ==
    /\ \E h \in Handlers :
        /\ handlers[h].payload = Body_noCallId
        /\ handlers[h].response = "ok"
    /\ \E h \in Handlers :
        /\ handlers[h].payload = Body_hang
        /\ handlers[h].response = "ok"
    /\ Len(vapi_events) = 2
    /\ vapi_calls = <<>>

\* The handler's vapi_calls upsert takes effect in this step.
UpsertStep(h) ==
    /\ handlers[h].pc = "upsert"
    /\ handlers'[h].pc \in {"candidateById", "candidateByCallId"}

\* The handler's candidates update takes effect in this step.
CandidateStep(h) ==
    /\ handlers[h].pc \in {"candidateById", "candidateByCallId"}
    /\ Steps(h)
    /\ handlers'[h].response # "error"

\* The variants that decide the verdict with the classifier.
ClassifierVariants == {"route", "gemini"}

IsBlank(x) == ~IsString(x) \/ Trim(x.v) = <<>>

IsPass(verdict) == verdict \in {Str(pass), Str(PASS)}

C4_Evidence(h) ==
    /\ Truthy(env.GEMINI_API_KEY) \/ Truthy(env.GOOGLE_API_KEY)
    /\ \/ ~IsBlank(summaryOf(variant, handlers[h].payload))
       \/ ~IsBlank(transcriptOf(variant, handlers[h].payload))
    /\ handlers[h].invoked
    /\ handlers[h].outcome # Thrown

\* C4: in the variants that use the classifier, a stored verdict of PASS (in
\* the call's vapi_calls document, or in the referenceCall of a candidate)
\* comes from a handler for which classifier credentials were configured,
\* the summary or the transcript was not blank, and the classifier call
\* returned without an error.
C4_FailClosed ==
    variant \in ClassifierVariants =>
        /\ \A i \in 1..Len(vapi_calls) :
            (IsPass(vapi_calls[i].geminiVerdict) \/ IsPass(vapi_calls[i].verdict))
                => C4_Evidence(callWriter[i])
        /\ \A j \in 1..Len(candidates) :
            (candWriter[j] # 0 /\ IsPass(candidates[j].referenceCall.verdict))
                => C4_Evidence(candWriter[j])

\* The fields of a vapi_calls document other than its two timestamps.
CallNonTs(doc) == [f \in CallFields \ {"createdAt", "updatedAt"} |-> doc[f]]

\* The position of the call's document in vapi_calls.
CallIndex(coll, callId) == Min(Matching(coll, "callId", callId))

\* The handler g completed before h began, with the same event.
SameEventBefore(g, h) ==
    /\ g \in handlers[h].after
    /\ handlers[g].payload = handlers[h].payload

C5_Fresh(h) ==
    updateOneUpsert(<<>>, pickCallId(handlers[h].payload),
                    callSet(variant, handlers[h].payload, handlers[h].now,
                            handlers[h].result),
                    [createdAt |-> ToISOString(handlers[h].now)])[1]

CandNonTs(doc) ==
    [f \in CandidateFields \ {"lastActivityAt"} |->
        CASE f = "activity" -> [k \in 1..Len(doc[f]) |-> doc[f][k].label]
          [] f = "referenceCall" -> [g \in RefFields \ {"endedAt"} |-> doc[f][g]]
          [] OTHER -> doc[f]]

\* C6: when a terminal event is processed after an earlier delivery of the
\* same event has completed and updated a candidate, the update leaves that
\* candidate (status, stage, referenceCall, tasks, risk score and flags, and
\* the activity log) as the earlier delivery left it, timestamps aside.
C6_SameEventSameCandidate ==
    [][\A h \in Handlers : \A j \in 1..Len(candidates) :
        (/\ CandidateStep(h)
         /\ candidates'[j] # candidates[j]
         /\ candWriter[j] # 0
         /\ SameEventBefore(candWriter[j], h))
        => CandNonTs(candidates'[j]) = CandNonTs(candidates[j])]_vars

\* The handlers whose vapi_calls upsert has taken effect.
Upserted ==
    {h \in Handlers :
        \/ handlers[h].pc \in {"candidateById", "candidateByCallId"}
        \/ /\ handlers[h].pc = "done"
           /\ handlers[h].response = "ok"
           /\ IsTerminal(variant, handlers[h].payload)}

\* C7: vapi_calls never holds two documents with the same callId, and holds
\* one document for each callId whose upsert has taken effect, however the
\* handlers interleave.
C7_OneRecordPerCallId ==
    /\ \A i, j \in 1..Len(vapi_calls) :
        vapi_calls[i].callId = vapi_calls[j].callId => i = j
    /\ Len(vapi_calls) =
        Cardinality({pickCallId(handlers[h].payload) : h \in Upserted})

\* Two handlers of the same call are both past their upsert, neither has
\* finished, and the call has one document, last written by the one that
\* read the clock first.
C7_Witness ==
    /\ \A h \in Handlers : handlers[h].pc \in {"candidateById", "candidateByCallId"}
    /\ pickCallId(handlers[1].payload) = pickCallId(handlers[2].payload)
    /\ Len(vapi_calls) = 1
    /\ callWriter[1] = 1

\* C8: a request that passed the token check is answered {ok: true}, whatever
\* a collaborator call of its handler did.
C8_AlwaysOk ==
    \A h \in Handlers :
        (handlers[h].pc = "done" /\ handlers[h].response # "unauthorized")
            => handlers[h].response = "ok"

\* C9: when the classifier call of a handler was rejected, the handler does
\* not end in an error: its verdict is FAIL and it goes on to the upsert.
C9_ClassifierErrorCaught ==
    \A h \in Handlers :
        handlers[h].outcome = Thrown =>
            /\ handlers[h].response # "error"
            /\ handlers[h].result.verdict \in {fail, FAIL}
            /\ \/ handlers[h].pc = "upsert"
               \/ h \in Upserted

\* C10: in the variants that use the classifier, a terminal event whose
\* summary and transcript are both absent or blank does not reach the
\* classifier, and its verdict is FAIL or UNKNOWN, with the source that
\* stands for missing input (no_summary) where a source is recorded.
C10_BlankInputFails ==
    variant \in ClassifierVariants =>
        \A h \in Handlers :
            (/\ handlers[h].pc \notin {"idle", "insert"}
             /\ IsTerminal(variant, handlers[h].payload)
             /\ IsBlank(summaryOf(variant, handlers[h].payload))
             /\ IsBlank(transcriptOf(variant, handlers[h].payload)))
            => /\ ~handlers[h].invoked
               /\ handlers[h].result.verdict \in {fail, FAIL, UNKNOWN}
               /\ variant = "gemini" => handlers[h].result.source = "no_summary"

\* No classifier credentials are configured.
NoCredentials == ~Truthy(env.GEMINI_API_KEY) /\ ~Truthy(env.GOOGLE_API_KEY)

\* The handler's verdict computation is over (it is at or past its upsert).
HasVerdict(h) ==
    \/ handlers[h].pc = "upsert"
    \/ h \in Upserted

\* C11: in the variants that use the classifier, with no classifier
\* credentials configured, a terminal event whose summary or transcript is
\* not blank does not reach the classifier, and its verdict, the one stored
\* in the call's vapi_calls document, is FAIL, with the source that stands for
\* missing credentials (missing_key) where a source is recorded.
C11_MissingCredentialsFail ==
    (variant \in ClassifierVariants /\ NoCredentials) =>
        /\ \A h \in Handlers :
            (/\ HasVerdict(h)
             /\ \/ ~IsBlank(summaryOf(variant, handlers[h].payload))
                \/ ~IsBlank(transcriptOf(variant, handlers[h].payload)))
            => /\ ~handlers[h].invoked
               /\ handlers[h].result.verdict \in {fail, FAIL}
               /\ variant = "gemini" => handlers[h].result.source = "missing_key"
        /\ \A i \in 1..Len(vapi_calls) :
            (\/ ~IsBlank(vapi_calls[i].summary)
             \/ ~IsBlank(vapi_calls[i].transcript))
            => \/ vapi_calls[i].geminiVerdict = Str(fail)
               \/ vapi_calls[i].verdict = Str(FAIL)

\* The candidates a handler of this behaviour has updated.
Transitioned == {j \in 1..Len(candidates) : candWriter[j] # 0}

\* C12: a candidate that a terminal event has updated has the status
\* REF_CALL_PASSED when the verdict stored in its referenceCall is PASS,
\* REF_CALL_FAILED when it is FAIL and REF_CALL_ENDED when it is UNKNOWN.
C12_StatusByVerdict ==
    \A j \in Transitioned :
        LET v == candidates[j].referenceCall.verdict
        IN  /\ v \in {Str(PASS), Str(FAIL), Str(UNKNOWN)}
            /\ v = Str(PASS) => candidates[j].status = Lit("REF_CALL_PASSED")
            /\ v = Str(FAIL) => candidates[j].status = Lit("REF_CALL_FAILED")
            /\ v = Str(UNKNOWN) => candidates[j].status = Lit("REF_CALL_ENDED")

\* The candidates that the filter of the handler's pending candidates update
\* matches.
CandidateTargets(h) ==
    IF handlers[h].pc = "candidateById"
    THEN Matching(candidates, "_id", ObjectId(candidateIdRaw(handlers[h].payload).v))
    ELSE Matching(candidates, "vapi.callId", pickCallId(handlers[h].payload))

\* In this step the handler's candidates update is applied to candidate j.
Applies(h, j) ==
    /\ CandidateStep(h)
    /\ CandidateTargets(h) # {}
    /\ j = Min(CandidateTargets(h))

C13_Grows ==
    \A j \in 1..Len(candidates) :
        LET old == candidates[j].activity
            new == candidates'[j].activity
        IN  /\ Len(new) >= Len(old)
            /\ SubSeq(new, 1, Len(old)) = old
            /\ \A h \in Handlers :
                Applies(h, j) =>
                    /\ Len(new) = Len(old) + 1
                    /\ new[Len(new)].at = ToISOString(handlers[h].now)
            /\ (\A h \in Handlers : ~Applies(h, j)) => new = old

\* C13: every step leaves each candidate's activity log with its earlier
\* entries unchanged and in place; a step that applies a candidate transition
\* appends exactly one entry, stamped with the handler's time, at the end of
\* the log, and no other step changes the log.
C13_ActivityAppendOnly == [][C13_Grows]_vars

\* Two transitions have been applied to one candidate: its log holds the
\* entry it started with followed by one entry of each handler.
C13_Witness ==
    \E j \in 1..Len(candidates) :
        /\ Len(candidates[j].activity) = 3
        /\ candidates[j].activity[1].label = Lit("Reference call started")
        /\ \A h \in Handlers : handlers[h].response = "ok"
        /\ candidates[j].activity[2].label # candidates[j].activity[3].label

\* Both handlers received the same terminal event, each began before the
\* other had finished, and both have answered {ok: true}.
ConcurrentDuplicates(g, h) ==
    /\ g # h
    /\ g \notin handlers[h].after
    /\ h \notin handlers[g].after
    /\ handlers[g].payload = handlers[h].payload
    /\ IsTerminal(variant, handlers[g].payload)
    /\ handlers[g].response = "ok"
    /\ handlers[h].response = "ok"

C15_BothTasksDone ==
    \A j \in Transitioned :
        /\ candidates[j]["tasks.referralContacted"] = Lit("DONE")
        /\ candidates[j]["tasks.referralResponses"] = Lit("DONE")

(* ---------------------------------------------------------------------- *)
(* Identity resolution: the same handlers, with events whose candidate id *)
(* and call id name different candidates, or no candidate at all.         *)
(* ---------------------------------------------------------------------- *)
c3 == Str(<<"c", "3">>)

\* A report for c2, the call of candidate bbbb..., whose variables name
\* candidate aaaa...
Body_cross ==
    Terminal(c2)
    @@ ("message.summary" :> Str(<<"p", "o", "o", "r">>))
    @@ ("message.successEvaluation" :> False)
    @@ ("message.variableValues" :> Obj)
    @@ ("message.variableValues.candidate_id" :> Str(Hex24("a")))

\* A report for c3, a call no candidate is associated with, whose variables
\* name a well-formed id that no candidate has.
Body_orphan ==
    Terminal(c3)
    @@ ("message.summary" :> Str(<<"s", "t", "r", "o", "n", "g">>))
    @@ ("message.successEvaluation" :> True)
    @@ ("message.call.assistantOverrides.variableValues" :> Obj)
    @@ ("message.call.assistantOverrides.variableValues.candidate_id" :>
            Str(Hex24("c")))

IdentityBodies ==
    {[json |-> TRUE, tree |-> b] :
        b \in {Body_positive, Body_tie, Body_noText, Body_cross, Body_orphan}}

NextIdentity ==
    \E h \in Handlers :
        \/ \E header \in Headers, body \in IdentityBodies : POST(h, header, body)
        \/ InsertEvent(h)
        \/ \E outcome \in ClassifierOutcomes : ClassifierReturns(h, outcome)
        \/ UpsertCall(h)
        \/ UpdateCandidateById(h)
        \/ UpdateCandidateByCallId(h)

SpecIdentity == Init /\ [][NextIdentity]_vars

\* The handler's audit entry and the call's document are stored.
C16_Stored(h) ==
    /\ \E i \in 1..Len(vapi_events) :
        /\ vapi_events[i].payload = handlers[h].payload
        /\ vapi_events[i].receivedAt = ToISOString(handlers[h].now)
    /\ Matching(vapi_calls, "callId", pickCallId(handlers[h].payload)) # {}

C16_Attempts(h) ==
    /\ UpsertStep(h) =>
        (handlers'[h].pc = "candidateById" <=> hasCandidateId(handlers[h].payload))
    /\ (handlers[h].pc = "candidateById" /\ Steps(h)) =>
        /\ handlers'[h].pc = "candidateByCallId" <=> CandidateTargets(h) = {}
        /\ CandidateTargets(h) = {} => UNCHANGED candidates
        /\ CandidateTargets(h) # {} =>
            /\ handlers'[h].response = "ok"
            /\ candidates'[Min(CandidateTargets(h))]["_id"]
                 = ObjectId(candidateIdRaw(handlers[h].payload).v)
            /\ candWriter'[Min(CandidateTargets(h))] = h
    /\ (handlers[h].pc = "candidateByCallId" /\ Steps(h)) =>
        /\ handlers'[h].response = "ok"
        /\ C16_Stored(h)'
        /\ CandidateTargets(h) = {} => UNCHANGED <<candidates, candWriter>>
        /\ CandidateTargets(h) # {} => candWriter'[Min(CandidateTargets(h))] = h

\* C16: after the vapi_calls upsert the handler first updates the candidate
\* whose _id is the candidate_id of the call variables, when that is a string
\* of 24 hex digits; it updates by vapi.callId exactly when that update
\* matched no document or was not made; when the update by vapi.callId
\* matches no document either, no candidate changes, the handler answers
\* {ok: true}, and its audit entry and the call's document are stored.
C16_IdentityResolution == [][\A h \in Handlers : C16_Attempts(h)]_vars

\* The stages of one request, read from the handler and the collections.
\* The audit entry of the handler is stored.
AuditStored(h) ==
    \E i \in 1..Len(vapi_events) :
        /\ vapi_events[i].payload = handlers[h].payload
        /\ vapi_events[i].receivedAt = ToISOString(handlers[h].now)

\* The handler has begun to classify: it has called the classifier or has
\* its verdict.
ClassifyBegun(h) == handlers[h].invoked \/ handlers[h].result # NoVerdict

\* The handler has its verdict.
Classified(h) == handlers[h].result # NoVerdict

\* The call's document is stored.
CallStored(h) ==
    Matching(vapi_calls, "callId", pickCallId(handlers[h].payload)) # {}

\* The stages after classification, which the statement and the code order
\* alike: the upsert begins with the verdict known, a candidates update
\* begins with the call's document stored, and only a handler that is past
\* its upsert has written a document.
ReconcileThenTransition(h) ==
    /\ handlers[h].pc = "upsert" => Classified(h)
    /\ handlers[h].pc \in {"candidateById", "candidateByCallId"} =>
        Classified(h) /\ CallStored(h)
    /\ \A i \in 1..Len(vapi_calls) : callWriter[i] = h => h \in Upserted
    /\ \A j \in 1..Len(candidates) :
        candWriter[j] = h => (h \in Upserted /\ CallStored(h))

Parsed(h) ==
    /\ handlers[h].invoked
    /\ handlers[h].outcome # Thrown
    /\ Classified(h)

\* C18: the verdict computed from the classifier's text is FAIL when the
\* text, in lower case, contains "fail"; otherwise PASS when it contains
\* "pass"; otherwise the verdict of the keyword heuristic over the summary.
C18_ParseByContainment ==
    \A h \in Handlers :
        Parsed(h) =>
            LET text == ToLowerCase(Coalesce(handlers[h].outcome, Str(<<>>)).v)
                verdict == ToUpperCase(handlers[h].result.verdict)
            IN  IF Includes(text, fail) THEN verdict = FAIL
                ELSE IF Includes(text, pass) THEN verdict = PASS
                ELSE verdict = gemini_fallback(summaryOf(variant, handlers[h].payload))

\* C19: when the verdict of a handler comes from the keyword heuristic and the
\* summary, in lower case, holds both a positive and a negative marker, the
\* verdict is FAIL.
C19_NegativeWinsTies ==
    \A h \in Handlers :
        LET s == ToLowerCase(Coalesce(gemini_pickSummary(handlers[h].payload),
                                      Str(<<>>)).v)
        IN  (/\ variant = "gemini"
             /\ Parsed(h)
             /\ handlers[h].result.source = "fallback"
             /\ gemini_positive(s)
             /\ gemini_negative(s))
            => handlers[h].result.verdict = FAIL

(* ---------------------------------------------------------------------- *)
(* The normalizer: the same handlers, with payloads that expose a field   *)
(* at several paths, hold null or "" at a path, or have another shape.    *)
(* ---------------------------------------------------------------------- *)
\* callId and summary are "" at their first path and set at a later one.
Norm_emptyFirst ==
    ("message.type" :> EndOfCallReport)
    @@ ("callId" :> Str(<<>>))
    @@ ("call.id" :> c1)
    @@ ("message.summary" :> Str(<<>>))
    @@ ("message.analysis.summary" :> Str(<<"s", "t", "r", "o", "n", "g">>))
    @@ ("message.artifact.transcript" :> Str(<<>>))
    @@ ("message.transcript" :> Str(<<"h", "i">>))

\* The first paths hold null, a later one the value.
Norm_nullFirst ==
    ("message.type" :> Null)
    @@ ("type" :> EndOfCallReport)
    @@ ("callId" :> Null)
    @@ ("call.id" :> Null)
    @@ ("id" :> c2)
    @@ ("message.summary" :> Null)
    @@ ("message.analysis.summary" :> Null)
    @@ ("message.recordingUrl" :> Null)
    @@ ("message.artifact.recording.mono.combinedUrl" :> Str(<<"u", "3">>))

\* Every field is set at every one of its paths, each with its own value.
Norm_allPaths ==
    ("message.type" :> EndOfCallReport)
    @@ ("type" :> Str(<<"h", "a", "n", "g">>))
    @@ ("callId" :> c1)
    @@ ("call.id" :> c2)
    @@ ("message.call.id" :> c3)
    @@ ("message.summary" :> Str(<<"p", "o", "o", "r">>))
    @@ ("message.analysis.summary" :> Str(<<"s", "t", "r", "o", "n", "g">>))
    @@ ("message.transcript" :> Str(<<"h", "i">>))
    @@ ("message.artifact.transcript" :> Str(<<"y", "o">>))
    @@ ("message.recordingUrl" :> Str(<<"u", "1">>))
    @@ ("message.artifact.recordingUrl" :> Str(<<"u", "2">>))
    @@ ("message.artifact.recording.mono.combinedUrl" :> Str(<<"u", "3">>))
    @@ ("message.artifact.variableValues" :> Obj)
    @@ ("message.artifact.variableValues.candidate_id" :> Str(Hex24("a")))

\* message is a text, not an object: no path below it exists.
Norm_messageIsText ==
    ("message" :> Str(<<"h", "i">>))
    @@ ("status" :> EndOfCallReport)
    @@ ("id" :> c1)

NormalizeBodies ==
    {[json |-> TRUE, tree |-> b] :
        b \in {EmptyObject, Norm_emptyFirst, Norm_nullFirst, Norm_allPaths,
               Norm_messageIsText, Body_positive}}

NextNormalize ==
    \E h \in Handlers :
        \/ \E header \in Headers, body \in NormalizeBodies : POST(h, header, body)
        \/ InsertEvent(h)
        \/ \E outcome \in ClassifierOutcomes : ClassifierReturns(h, outcome)
        \/ UpsertCall(h)
        \/ UpdateCandidateById(h)
        \/ UpdateCandidateByCallId(h)

SpecNormalize == Init /\ [][NextNormalize]_vars

\* The value at the first of the paths that holds neither null nor
\* undefined; otherwise the default.
RECURSIVE FirstNonNull(_, _, _)
FirstNonNull(payload, paths, default) ==
    IF paths = <<>> THEN default
    ELSE IF ~Nullish(Get(payload, Head(paths))) THEN Get(payload, Head(paths))
    ELSE FirstNonNull(payload, Tail(paths), default)

\* The candidate paths of each field, in the order of the deployed variant.
CallIdPaths ==
    <<"callId", "call.id", "id", "message.call.id", "message.callId", "message.id">>

EventTypePaths(v) ==
    IF v = "audit"
    THEN <<"type", "event", "name", "status">>
    ELSE <<"message.type", "type", "event", "name", "status">>

SummaryPaths(v) ==
    IF v = "gemini"
    THEN <<"message.analysis.summary", "message.summary">>
    ELSE <<"message.summary", "message.analysis.summary">>

TranscriptPaths(v) ==
    IF v = "gemini"
    THEN <<"message.artifact.transcript", "message.transcript">>
    ELSE <<"message.transcript", "message.artifact.transcript">>

RecordingUrlPaths ==
    <<"message.recordingUrl", "message.artifact.recordingUrl",
      "message.artifact.recording.mono.combinedUrl">>

\* C20: the callId and eventType stored in every audit entry, and the
\* summary, transcript and recordingUrl stored in every vapi_calls document,
\* are the values at the first candidate path of the payload that holds
\* neither null nor undefined, and null ("unknown" for eventType) when no path
\* does; every request that passed the token check, of whatever payload
\* shape, has its audit entry.
C20_FirstNonNullPath ==
    /\ \A i \in 1..Len(vapi_events) :
        LET p == vapi_events[i].payload
        IN  /\ vapi_events[i].callId = FirstNonNull(p, CallIdPaths, Null)
            /\ vapi_events[i].eventType
                 = FirstNonNull(p, EventTypePaths(variant), Str(unknown))
    /\ \A i \in 1..Len(vapi_calls) :
        LET p == handlers[callWriter[i]].payload
        IN  /\ vapi_calls[i].summary = FirstNonNull(p, SummaryPaths(variant), Null)
            /\ vapi_calls[i].transcript
                 = FirstNonNull(p, TranscriptPaths(variant), Null)
            /\ vapi_calls[i].recordingUrl = FirstNonNull(p, RecordingUrlPaths, Null)
    /\ \A h \in Audited : AuditStored(h)

C21_Ordered ==
    \A i \in 1..Len(vapi_calls) :
        TimeOf(vapi_calls[i].createdAt) <= TimeOf(vapi_calls[i].updatedAt)

C21_CreatedOnce ==
    \A i \in 1..Len(vapi_calls) :
        vapi_calls'[i].createdAt = vapi_calls[i].createdAt

\* C21: in every state, however the handlers of one call interleave, each
\* vapi_calls document has createdAt no later than updatedAt, and no step
\* changes the createdAt that the inserting write stored.
C21_CreatedBeforeUpdated == [](C21_Ordered) /\ [][C21_CreatedOnce]_vars

\* The verdict of a vapi_calls document, in upper case (route.ts stores it in
\* geminiVerdict as "pass" | "fail", the variants of part_000 in verdict).
CallVerdict(doc) ==
    IF IsString(doc.geminiVerdict)
    THEN ToUpperCase(doc.geminiVerdict.v)
    ELSE doc.verdict.v

\* Every handler of the call has responded or thrown.
AllCompleted(callId) ==
    \A h \in Handlers :
        (handlers[h].pc # "idle" /\ pickCallId(handlers[h].payload) = callId)
            => handlers[h].pc = "done"

\* C22: once every handler of a call has completed, the verdict of the call's
\* vapi_calls document equals the verdict in the referenceCall of the
\* candidate whose vapi.callId is the call, however the handlers interleaved.
C22_VerdictsAgree ==
    \A i \in 1..Len(vapi_calls) : \A j \in 1..Len(candidates) :
        (/\ candidates[j]["vapi.callId"] = vapi_calls[i].callId
         /\ AllCompleted(vapi_calls[i].callId))
        => candidates[j].referenceCall.verdict = Str(CallVerdict(vapi_calls[i]))

\* The number held in risk.score.
ScoreOf(doc) == doc["risk.score"].v[1]

C23_Agree(h, j) ==
    LET old == candidates[j]
        new == candidates'[j]
    IN  /\ (ScoreOf(new) = RiskScorePass /\ ScoreOf(old) # RiskScorePass)
            => new.status = Lit("REF_CALL_PASSED")
        /\ new.status = Lit("REF_CALL_FAILED") =>
            /\ ScoreOf(new) = RiskScoreFail
            /\ \E k \in 1..Len(new["risk.flags"]) :
                new["risk.flags"][k] = Lit("Reference flagged concerns")
        /\ ToUpperCase(handlers[h].result.verdict) # PASS
            => ScoreOf(new) >= ScoreOf(old)

\* C23: a step that applies a candidate transition stores the risk score 15
\* only together with the status REF_CALL_PASSED, stores with the status
\* REF_CALL_FAILED the risk score 85 and the risk flag, and does not lower
\* the risk score when the verdict is not PASS.
C23_StatusRiskAgree ==
    [][\A h \in Handlers : \A j \in 1..Len(candidates) :
        Applies(h, j) => C23_Agree(h, j)]_vars

====
